---------------------------- MODULE Spec2Model ----------------------------
(***************************************************************************)
(* Model of nkConfigHandler: typed configuration parameters loaded from    *)
(* the table public.nkinitvalues and exposed through the Configuration     *)
(* facade.                                                                 *)
(*                                                                         *)
(* Python strings that the program parses (the raw "value" column) are     *)
(* sequences of one-character strings, so that int(), locale.atof(),       *)
(* str.split(), str.lower() and datetime.strptime() are computed and not   *)
(* assumed.  Strings that are only compared (application ids, parameter    *)
(* names, file names) are TLA+ strings.                                    *)
(***************************************************************************)
EXTENDS Integers, Sequences, FiniteSets, TLC

(***************************************************************************)
(* Bounds of the model.                                                    *)
(***************************************************************************)
MaxRows == 2        \* rows held by the table at any time
MaxChanges == 1     \* changes other clients make between the two queries

(***************************************************************************)
(* Characters and strings.                                                 *)
(***************************************************************************)
Digits == <<"0", "1", "2", "3", "4", "5", "6", "7", "8", "9">>
UpperCase == <<"A", "B", "C", "D", "E", "F", "G", "H", "I", "J", "K", "L", "M",
               "N", "O", "P", "Q", "R", "S", "T", "U", "V", "W", "X", "Y", "Z">>
LowerCase == <<"a", "b", "c", "d", "e", "f", "g", "h", "i", "j", "k", "l", "m",
               "n", "o", "p", "q", "r", "s", "t", "u", "v", "w", "x", "y", "z">>

Range(s) == {s[i] : i \in DOMAIN s}
IsDigit(c) == c \in Range(Digits)
DigitVal(c) == (CHOOSE i \in DOMAIN Digits : Digits[i] = c) - 1
AllDigits(s) == \A i \in DOMAIN s : IsDigit(s[i])

\* str.lower() on one character and on a string
LowerChar(c) ==
    IF c \in Range(UpperCase)
    THEN LowerCase[CHOOSE i \in DOMAIN UpperCase : UpperCase[i] = c]
    ELSE c
Lower(s) == [i \in DOMAIN s |-> LowerChar(s[i])]

\* str.strip() for the blank character
RECURSIVE LStrip(_)
LStrip(s) == IF s # <<>> /\ Head(s) = " " THEN LStrip(Tail(s)) ELSE s
RECURSIVE RStrip(_)
RStrip(s) ==
    IF s # <<>> /\ s[Len(s)] = " " THEN RStrip(SubSeq(s, 1, Len(s) - 1)) ELSE s
Strip(s) == RStrip(LStrip(s))

\* str.split(sep): the pieces between the separators, empty pieces kept
RECURSIVE SplitFrom(_, _, _)
SplitFrom(s, sep, piece) ==
    IF s = <<>> THEN <<piece>>
    ELSE IF Head(s) = sep THEN <<piece>> \o SplitFrom(Tail(s), sep, <<>>)
    ELSE SplitFrom(Tail(s), sep, Append(piece, Head(s)))
Split(s, sep) == SplitFrom(s, sep, <<>>)

\* the value of a run of decimal digits, "_" skipped
RECURSIVE DigitsVal(_, _)
DigitsVal(s, acc) ==
    IF s = <<>> THEN acc
    ELSE IF Head(s) = "_" THEN DigitsVal(Tail(s), acc)
    ELSE DigitsVal(Tail(s), 10 * acc + DigitVal(Head(s)))

\* digits, single underscores allowed between two digits (PEP 515)
IsDigitPart(s) ==
    /\ s # <<>>
    /\ \A i \in DOMAIN s : IsDigit(s[i]) \/ s[i] = "_"
    /\ IsDigit(s[1]) /\ IsDigit(s[Len(s)])
    /\ \A i \in 1..(Len(s) - 1) : ~(s[i] = "_" /\ s[i + 1] = "_")

HasSign(s) == s # <<>> /\ Head(s) \in {"+", "-"}
Unsigned(s) == IF HasSign(s) THEN Tail(s) ELSE s
SignOf(s) == IF s # <<>> /\ Head(s) = "-" THEN -1 ELSE 1

(***************************************************************************)
(* Typed values and the outcome of a call.                                 *)
(***************************************************************************)
NoneV == [t |-> "none"]
StrV(s) == [t |-> "str", v |-> s]
IntV(n) == [t |-> "int", v |-> n]
BoolV(b) == [t |-> "bool", v |-> b]
ListV(l) == [t |-> "list", v |-> l]
\* a float, as mantissa * 10^exp with no trailing zero in the mantissa
RECURSIVE NormFloat(_, _)
NormFloat(m, e) ==
    IF m = 0 THEN [t |-> "float", m |-> 0, e |-> 0]
    ELSE IF m % 10 = 0 THEN NormFloat(m \div 10, e + 1)
    ELSE [t |-> "float", m |-> m, e |-> e]
DateV(y, mo, d, h, mi, s) ==
    [t |-> "datetime", y |-> y, mo |-> mo, d |-> d, h |-> h, mi |-> mi, s |-> s]

\* a call returns a value or raises an exception of class exc; what names the
\* failure, cols the columns or names the message lists, prefix the text a
\* handler put in front of the message of the exception it caught
Return(v) ==
    [ok |-> TRUE, exc |-> "", what |-> "", cols |-> {}, prefix |-> "", val |-> v]
Raise(exc, what, cols) ==
    [ok |-> FALSE, exc |-> exc, what |-> what, cols |-> cols, prefix |-> "",
     val |-> NoneV]

(***************************************************************************)
(* The coercion functions of TYPE_MAPPERS.                                 *)
(***************************************************************************)
\* int(x) on a string: blanks stripped, an optional sign, decimal digits
PyInt(s) ==
    LET t == Strip(s)
        body == Unsigned(t)
    IN  IF IsDigitPart(body)
        THEN Return(IntV(SignOf(t) * DigitsVal(body, 0)))
        ELSE Raise("ValueError", "invalid_literal", {})

NumDigits(s) == Cardinality({i \in DOMAIN s : IsDigit(s[i])})
IsExponent(s) == IsDigitPart(Unsigned(s))
ExponentVal(s) == SignOf(s) * DigitsVal(Unsigned(s), 0)

\* float(x) on a string: [sign] digits [. digits] [e [sign] digits], inf, nan
PyFloat(s) ==
    LET t == Strip(s)
        body == Lower(Unsigned(t))
        parts == Split(body, "e")
        mant == Split(parts[1], ".")
        ip == mant[1]
        fp == IF Len(mant) = 2 THEN mant[2] ELSE <<>>
        wellFormed ==
            /\ Len(parts) \in {1, 2}
            /\ Len(mant) \in {1, 2}
            /\ ip = <<>> \/ IsDigitPart(ip)
            /\ fp = <<>> \/ IsDigitPart(fp)
            /\ ~(ip = <<>> /\ fp = <<>>)
            /\ Len(parts) = 2 => IsExponent(parts[2])
        ex == IF Len(parts) = 2 THEN ExponentVal(parts[2]) ELSE 0
    IN  IF body \in {<<"i", "n", "f">>, <<"i", "n", "f", "i", "n", "i", "t", "y">>}
        THEN Return([t |-> "float_inf", m |-> SignOf(t)])
        ELSE IF body = <<"n", "a", "n">>
        THEN Return([t |-> "float_nan"])
        ELSE IF wellFormed
        THEN Return(NormFloat(SignOf(t) * DigitsVal(ip \o fp, 0), ex - NumDigits(fp)))
        ELSE Raise("ValueError", "invalid_literal", {})

\* locale.atof(x): the program never calls setlocale, so LC_NUMERIC is "C":
\* no thousands separator is removed and the decimal point is "."
atof(s) == PyFloat(s)

TruthyTokens ==
    { <<"y">>, <<"y", "e", "s">>, <<"t">>, <<"t", "r", "u", "e">>, <<"o", "n">>,
      <<"1">>, <<"j", "a">> }
ToBool(s) == Return(BoolV(Lower(s) \in TruthyTokens))

\* [f(val) for val in x.split(",")]: the first element that fails raises
RECURSIVE MapAll(_, _, _)
MapNext(pieces, isInt, acc, r) ==
    IF r.ok THEN MapAll(Tail(pieces), isInt, Append(acc, r.val)) ELSE r
MapAll(pieces, isInt, acc) ==
    IF pieces = <<>> THEN Return(ListV(acc))
    ELSE MapNext(pieces, isInt, acc,
                 IF isInt THEN PyInt(Head(pieces)) ELSE atof(Head(pieces)))
StrPieces(p) == Return(ListV([i \in DOMAIN p |-> StrV(p[i])]))
StrList(s) == StrPieces(Split(s, ","))
IntList(s) == MapAll(Split(s, ","), TRUE, <<>>)
FloatList(s) == MapAll(Split(s, ","), FALSE, <<>>)

(***************************************************************************)
(* parse_date: datetime.strptime with three formats, the first that        *)
(* matches wins.  A field is the text between two separators; the          *)
(* directives accept the texts of _strptime's regular expressions.         *)
(***************************************************************************)
Num(s) == DigitsVal(s, 0)
\* %d: 3[0-1] | [1-2]\d | 0[1-9] | [1-9] | " "[1-9]
IsDay(s) ==
    \/ Len(s) = 2 /\ AllDigits(s) /\ Num(s) \in 1..31
    \/ Len(s) = 1 /\ AllDigits(s) /\ Num(s) \in 1..9
    \/ Len(s) = 2 /\ s[1] = " " /\ IsDigit(s[2]) /\ DigitVal(s[2]) \in 1..9
DayVal(s) == IF s[1] = " " THEN DigitVal(s[2]) ELSE Num(s)
\* %m: 1[0-2] | 0[1-9] | [1-9]
IsMonth(s) ==
    \/ Len(s) = 2 /\ AllDigits(s) /\ Num(s) \in 1..12
    \/ Len(s) = 1 /\ AllDigits(s) /\ Num(s) \in 1..9
\* %Y: \d\d\d\d
IsYear(s) == Len(s) = 4 /\ AllDigits(s)
\* %H: 2[0-3] | [0-1]\d | \d
IsHour(s) == Len(s) \in {1, 2} /\ AllDigits(s) /\ Num(s) \in 0..23
\* %M: [0-5]\d | \d
IsMinute(s) == Len(s) \in {1, 2} /\ AllDigits(s) /\ Num(s) \in 0..59
\* %S: 6[0-1] | [0-5]\d | \d
IsSecond(s) == Len(s) \in {1, 2} /\ AllDigits(s) /\ Num(s) \in 0..61

IsLeap(y) == (y % 4 = 0 /\ y % 100 # 0) \/ y % 400 = 0
DaysInMonth(y, m) ==
    IF m = 2 THEN (IF IsLeap(y) THEN 29 ELSE 28)
    ELSE IF m \in {4, 6, 9, 11} THEN 30 ELSE 31
\* the datetime constructor rejects what the directives let through
ValidDate(y, m, d) == y >= 1 /\ d <= DaysInMonth(y, m)
ValidTime(h, mi, s) == s <= 59

\* "%d-%m-%Y" (dayFirst) or "%Y-%m-%d" on the date part
DateFields(s, dayFirst) ==
    LET p == Split(s, "-")
        okShape ==
            /\ Len(p) = 3
            /\ IF dayFirst THEN IsDay(p[1]) /\ IsYear(p[3])
                           ELSE IsYear(p[1]) /\ IsDay(p[3])
            /\ IsMonth(p[2])
        y == IF dayFirst THEN Num(p[3]) ELSE Num(p[1])
        d == IF dayFirst THEN DayVal(p[1]) ELSE DayVal(p[3])
    IN  IF okShape /\ ValidDate(y, Num(p[2]), d)
        THEN [ok |-> TRUE, y |-> y, mo |-> Num(p[2]), d |-> d]
        ELSE [ok |-> FALSE, y |-> 0, mo |-> 0, d |-> 0]

\* "%H:%M:%S"
TimeFields(s) ==
    LET p == Split(s, ":")
        okShape == Len(p) = 3 /\ IsHour(p[1]) /\ IsMinute(p[2]) /\ IsSecond(p[3])
    IN  IF okShape /\ ValidTime(Num(p[1]), Num(p[2]), Num(p[3]))
        THEN [ok |-> TRUE, h |-> Num(p[1]), mi |-> Num(p[2]), s |-> Num(p[3])]
        ELSE [ok |-> FALSE, h |-> 0, mi |-> 0, s |-> 0]

\* "<date> <time>": the blank of the format matches one or more blanks, and the
\* time part holds none, so the two parts meet at the last run of blanks
LastBlank(s) ==
    IF \E i \in DOMAIN s : s[i] = " "
    THEN CHOOSE i \in DOMAIN s : s[i] = " " /\ \A j \in DOMAIN s : s[j] = " " => j <= i
    ELSE 0
StrpDateTime(s, dayFirst) ==
    LET k == LastBlank(s)
        datePart == RStrip(SubSeq(s, 1, k))
        timePart == SubSeq(s, k + 1, Len(s))
        df == DateFields(datePart, dayFirst)
        tf == TimeFields(timePart)
    IN  IF k > 0 /\ df.ok /\ tf.ok
        THEN Return(DateV(df.y, df.mo, df.d, tf.h, tf.mi, tf.s))
        ELSE Raise("ValueError", "format_mismatch", {})
StrpDate(s) ==
    LET df == DateFields(s, TRUE)
    IN  IF df.ok THEN Return(DateV(df.y, df.mo, df.d, 0, 0, 0))
        ELSE Raise("ValueError", "format_mismatch", {})

\* the first result that is no error, the last one else
OrElse(a, b) == IF a.ok THEN a ELSE b
parse_date(s) ==
    OrElse(StrpDateTime(s, TRUE),
           OrElse(StrpDateTime(s, FALSE),
                  OrElse(StrpDate(s),
                         Raise("ValueError", "date_format_not_recognized", {}))))

(***************************************************************************)
(* TYPE_MAPPERS: the dispatch table, keys 1..8.                            *)
(***************************************************************************)
TYPE_MAPPERS_keys == 1..8
ApplyMapper(k, s) ==
    CASE k = 1 -> Return(StrV(s))
      [] k = 2 -> PyInt(s)
      [] k = 3 -> atof(s)
      [] k = 4 -> ToBool(s)
      [] k = 5 -> StrList(s)
      [] k = 6 -> IntList(s)
      [] k = 7 -> FloatList(s)
      [] k = 8 -> parse_date(s)

(***************************************************************************)
(* Rows.  A row is a function from the names of its columns to the cells;  *)
(* the empty function stands for an empty row and for None, which the code *)
(* tells apart nowhere (both are "not row").  The cell type_id is          *)
(* [tag, n]: the integer n, the string that spells n, or None.             *)
(***************************************************************************)
EXPECTED_COLUMNS == {"id", "name", "description", "type_id", "value", "debugmode"}

IntId(n) == [tag |-> "int", n |-> n]
StrId(n) == [tag |-> "str", n |-> n]
NoneId == [tag |-> "none", n |-> 0]

\* TYPE_MAPPERS.get(type_id): the key of the mapper, 0 for None.  A str or
\* None key equals no integer key of the dictionary.
TYPE_MAPPERS_get(tid) ==
    IF tid.tag = "int" /\ tid.n \in TYPE_MAPPERS_keys THEN tid.n ELSE 0

\* Row.all_columns_present, the validator of the field "row": the assertion
\* error becomes pydantic's ValidationError, whose message holds the set diff
all_columns_present(v) ==
    LET diff == EXPECTED_COLUMNS \ DOMAIN v
    IN  IF diff = {} THEN Return(v)
        ELSE Raise("ValidationError", "missing_column", diff)

\* Row(row=v): the one field is validated; computed fields are not evaluated
Row_init(v) == all_columns_present(v)

\* Row.model_validate(d): d holds the FIELDS of the model, so its key "row" is
\* the field, and every other key is an extra that no validator looks at
Row_model_validate(d) ==
    IF "row" \notin DOMAIN d
    THEN Raise("ValidationError", "field_required", {"row"})
    ELSE all_columns_present(d["row"])

\* Row.name
Row_name(v) == v["name"]

\* Row.value
Converted(r) == IF r.ok THEN r ELSE Raise("ValueError", "conversion_failed", {})
\* TYPE_MAPPERS.get(type_id, str): an unknown type_id passes the raw string on
Mapped_PassThrough(mapper, raw) ==
    IF mapper = 0 THEN Return(StrV(raw)) ELSE Converted(ApplyMapper(mapper, raw))
Mapped(mapper, raw) ==
    IF mapper = 0
    THEN Raise("ValueError", "incompatible_type", {})
    ELSE Converted(ApplyMapper(mapper, raw))
Row_value(v) == Mapped(TYPE_MAPPERS_get(v["type_id"]), v["value"])

Parameter(name, value) == [t |-> "Parameter", parameter |-> name, value |-> value]

\* get_parameter(row)
AsParameter(name, v) == IF v.ok THEN Return(Parameter(name, v.val)) ELSE v
FromModel(m) == IF ~m.ok THEN m ELSE AsParameter(Row_name(m.val), Row_value(m.val))
get_parameter(row) ==
    IF DOMAIN row = {}
    THEN Raise("RuntimeError", "no_row_supplied", {})
    ELSE FromModel(Row_model_validate(row))

\* raise RuntimeError(f"Value conversion failed: {e}") from e
ValueConversionFailed(e) ==
    [e EXCEPT !.exc = "RuntimeError", !.prefix = "Value conversion failed"]
Reraised(r) == IF r.ok THEN r ELSE ValueConversionFailed(r)

\* get_parameter_value(row)
ValueOfModel(m) == IF ~m.ok THEN m ELSE Row_value(m.val)
get_parameter_value(row) ==
    IF DOMAIN row = {}
    THEN Return(NoneV)
    ELSE Reraised(ValueOfModel(Row_init(row)))

(***************************************************************************)
(* The connection parameter file.  A file system maps the names of the     *)
(* files that exist to their content: section name -> (option -> value).   *)
(* Option names are character strings (ConfigParser folds their case);     *)
(* the files hold no DEFAULT section and no "%" to interpolate.            *)
(***************************************************************************)
\* ConfigParser.read(filename): a file that cannot be opened is skipped
\* silently, and the parser stays empty
ConfigParser_read(files, filename) ==
    IF filename \in DOMAIN files
    THEN [sec \in DOMAIN files[filename] |->
            LET written == files[filename][sec]
                names == {Lower(k) : k \in DOMAIN written}
            IN  [o \in names |->
                    written[CHOOSE k \in DOMAIN written : Lower(k) = o]]]
    ELSE <<>>

\* load_config(filename, section).  parser.read raises no FileNotFoundError,
\* so the first handler never runs; a missing section raises RuntimeError
load_config(files, filename, section) ==
    LET parser == ConfigParser_read(files, filename)
    IN  IF section \in DOMAIN parser
        THEN Return(parser[section])
        ELSE Raise("RuntimeError", "section_not_found", {section})

(***************************************************************************)
(* The table public.nkinitvalues and the queries on it.                    *)
(***************************************************************************)
\* select_with_conditions(conn, "public", "nkinitvalues", where) on a table
\* with the columns cols: SELECT * [WHERE k = v AND ...]; a filter on a column
\* the table does not have is an error of the server, raised unchanged
RECURSIVE Matching(_, _)
Matching(rows, where) ==
    IF rows = <<>> THEN <<>>
    ELSE IF \A k \in DOMAIN where : Head(rows)[k] = where[k]
    THEN <<Head(rows)>> \o Matching(Tail(rows), where)
    ELSE Matching(Tail(rows), where)
Project(rows, cols) == [i \in DOMAIN rows |-> [c \in cols |-> rows[i][c]]]
select_with_conditions(rows, cols, where) ==
    IF DOMAIN where \subseteq cols
    THEN Return(Project(Matching(rows, where), cols))
    ELSE Raise("DatabaseError", "query_failed", DOMAIN where \ cols)

\* the filters of the two call shapes
NoConditions == <<>>
\* the filter without the debug flag
where_conditions_IdOnly(appname, debugging) == [id |-> appname]
where_conditions(appname, debugging) == [id |-> appname, debugmode |-> debugging]

\* the names of the production rows only
IdsOf_ProductionOnly(results) ==
    IF \E i \in DOMAIN results : "id" \notin DOMAIN results[i]
    THEN Raise("KeyError", "id", {})
    ELSE [Return(NoneV) EXCEPT !.cols =
            {results[i]["id"] : i \in {j \in DOMAIN results :
                "debugmode" \in DOMAIN results[j] => ~results[j]["debugmode"]}}]
\* set([result["id"] for result in results])
IdsOf(results) ==
    IF \E i \in DOMAIN results : "id" \notin DOMAIN results[i]
    THEN Raise("KeyError", "id", {})
    ELSE [Return(NoneV) EXCEPT !.cols = {results[i]["id"] : i \in DOMAIN results}]

\* constants[row["name"]] = get_parameter_value(row), row after row: the right
\* side is evaluated first, and the first row that raises ends the loop
Put(m, k, v) == [x \in DOMAIN m \cup {k} |-> IF x = k THEN v ELSE m[x]]
RECURSIVE Aggregate(_, _)
\* constants.setdefault(...): the first row of a name wins
Store_KeepFirst(rows, constants, v) ==
    IF ~v.ok THEN v
    ELSE IF "name" \notin DOMAIN Head(rows) THEN Raise("KeyError", "name", {})
    ELSE IF Head(rows)["name"] \in DOMAIN constants
    THEN Aggregate(Tail(rows), constants)
    ELSE Aggregate(Tail(rows), Put(constants, Head(rows)["name"], v.val))
Store(rows, constants, v) ==
    IF ~v.ok THEN v
    ELSE IF "name" \notin DOMAIN Head(rows) THEN Raise("KeyError", "name", {})
    ELSE Aggregate(Tail(rows), Put(constants, Head(rows)["name"], v.val))
Aggregate(rows, constants) ==
    IF rows = <<>> THEN Return([t |-> "dict", v |-> constants])
    ELSE Store(rows, constants, get_parameter_value(Head(rows)))

\* parameters.append(get_parameter(result)) for every result
RECURSIVE Parameters(_, _)
AppendParameter(rows, acc, q) ==
    IF ~q.ok THEN q ELSE Parameters(Tail(rows), Append(acc, q.val))
Parameters(rows, acc) ==
    IF rows = <<>> THEN Return(ListV(acc))
    ELSE AppendParameter(rows, acc, get_parameter(Head(rows)))

(***************************************************************************)
(* ConfigurationModel: the fields, then the validator (mode "after").      *)
(***************************************************************************)
MinLength == 5
\* appname: str = Field(min_length=5)
FieldsValid(appname) == Len(appname) >= MinLength
\* the validator declared with mode "before": it runs ahead of the field
\* checks and asks the database first
AfterFields_QueryFirst(appname) == "v_load"
\* where the construction goes once the fields are checked: the validator
\* app_name_must_be_known runs only on valid fields, and checks the length
\* again before it asks the database
AfterFields(appname) ==
    IF ~FieldsValid(appname) THEN "failed"
    ELSE IF Len(appname) < MinLength THEN "failed"
    ELSE "v_load"
\* if self.appname not in allowed: raise ValueError(... sorted(allowed))
\* (a ValueError of a validator becomes a ValidationError; sorted() orders
\* the names and keeps the set)
app_name_must_be_known(appname, allowed) ==
    IF appname \notin allowed
    THEN Raise("ValidationError", "unknown_application", allowed)
    ELSE Return(NoneV)

(***************************************************************************)
(* Configuration: attribute access.                                        *)
(***************************************************************************)
\* what __init__ stores on the instance, in the order it stores it
InstanceAttributes ==
    <<"named_attributes", "initialized", "ini_file", "validation_model", "configs">>
\* what the class and object define
ClassAttributes ==
    {"__init__", "__getattr__", "__dir__", "__class__", "__dict__", "__doc__",
     "__module__"}

\* Configuration.__getattr__(name)
Configuration_getattr(configs, name) ==
    IF name \in DOMAIN configs THEN Return(configs[name])
    ELSE Raise("AttributeError", "no_attribute", {name})

\* obj.name on an instance whose __dict__ is self: Python finds instance and
\* class attributes by itself and calls __getattr__ only when it finds none
ReadAttribute(self, name) ==
    IF name \in DOMAIN self THEN Return(self[name])
    ELSE IF name \in ClassAttributes THEN Return([t |-> "classattr", attr |-> name])
    ELSE Configuration_getattr(self["configs"].v, name)

(***************************************************************************)
(* Inputs.                                                                 *)
(***************************************************************************)
V_42 == <<"4", "2">>
V_x == <<"x">>
V_Yes == <<"Y", "e", "s">>
V_no == <<"n", "o">>
V_list == <<"1", ",", "2">>
V_float == <<"1", ".", "5">>
V_date == <<"1", "5", "-", "0", "3", "-", "2", "0", "2", "4">>
V_stamp ==
    <<"2", "0", "2", "4", "-", "0", "3", "-", "1", "5", " ",
      "1", "0", ":", "3", "0", ":", "0", "0">>

Seqs(S, n) == UNION {[1..k -> S] : k \in 0..n}

\* application names given to Configuration: too short, unknown, stored
AppNames == {"", "kort", "app-a", "app-b", "app-zz"}
IniFiles == {"database.ini", "missing.ini"}
\* attribute names read from a Configuration
AttrNames == {"n1", "configs", "random_attr", "__dir__"}

\* the rows other clients store: (type_id, value) pairs that coerce, one that
\* does not parse and two with no mapper
StoredRow(id, name, tid, value, debugmode) ==
    [id |-> id, name |-> name, description |-> "d", type_id |-> tid,
     value |-> value, debugmode |-> debugmode]
StoreRows ==
    { StoredRow("app-a", "n1", IntId(2), V_42, FALSE),
      StoredRow("app-a", "n1", IntId(1), V_x, FALSE),
      StoredRow("app-a", "configs", IntId(5), V_list, FALSE),
      StoredRow("app-a", "n2", IntId(99), V_42, FALSE),
      StoredRow("app-b", "n1", StrId(2), V_42, FALSE),
      StoredRow("app-a", "n1", IntId(2), V_x, TRUE),
      StoredRow("app-b", "n2", IntId(4), V_Yes, FALSE) }
\* the columns the table may have
TableShapes ==
    { EXPECTED_COLUMNS, EXPECTED_COLUMNS \ {"description"},
      EXPECTED_COLUMNS \ {"debugmode"}, EXPECTED_COLUMNS \ {"id"} }

\* the file the program is installed with
PostgresOptions ==
    (<<"h", "o", "s", "t">> :> "db1") @@ (<<"u", "s", "e", "r">> :> "nk")
InstalledFiles == [f \in {"database.ini"} |-> [sec \in {"postgresql"} |-> PostgresOptions]]

(***************************************************************************)
(* State.                                                                  *)
(***************************************************************************)
VARIABLES
    files,          \* the file system: file name -> content of the ini file
    table,          \* the rows of public.nkinitvalues, in the order SELECT gives
    columns,        \* the columns of public.nkinitvalues
    changes,        \* the changes other clients made during this construction
    pc,             \* where Configuration.__init__ stands
    args,           \* its arguments: appname, debugging, ini_file
    self,           \* the __dict__ of the Configuration under construction
    allowed,        \* the names get_unique_app_names returned
    fetched,        \* the rows get_config fetched
    outcome,        \* what the construction returned or raised
    dbOps,          \* the database operations of this construction, in order
    openConns,      \* connections the call in progress opened, not ended since
    tableAtValidate, \* the table when the validator queried it
    tableAtLoad,    \* the table when get_config queried it
    lastRead,       \* the last attribute read and what the read gave
    fnCall,         \* the function last called on its own, "none" before
    fnRow,          \* the row given to it
    fnFile,         \* the file name given to load_config
    fnSection,      \* the section given to load_config
    fnRet           \* what the call gave

vars ==
    <<files, table, columns, changes, pc, args, self, allowed, fetched, outcome,
      dbOps, openConns, tableAtValidate, tableAtLoad, lastRead,
      fnCall, fnRow, fnFile, fnSection, fnRet>>

envVars == <<files, table, columns, changes>>
fnVars == <<fnCall, fnRow, fnFile, fnSection, fnRet>>
runVars == <<args, self, allowed, fetched, outcome, dbOps, tableAtValidate, tableAtLoad>>

NoArgs == [appname |-> "", debugging |-> FALSE, ini_file |-> ""]
NoRead == [name |-> "", res |-> Return(NoneV)]
Pending == Return(NoneV)

\* nothing under construction, no call made
Quiet ==
    /\ pc = "idle"
    /\ args = NoArgs
    /\ self = <<>>
    /\ allowed = {}
    /\ fetched = <<>>
    /\ outcome = Pending
    /\ dbOps = <<>>
    /\ openConns = 0
    /\ tableAtValidate = <<>>
    /\ tableAtLoad = <<>>
    /\ lastRead = NoRead

Init ==
    /\ files = InstalledFiles
    /\ table \in Seqs(StoreRows, MaxRows)
    /\ columns \in TableShapes
    /\ changes = 0
    /\ Quiet
    /\ fnCall = "none"
    /\ fnRow = <<>>
    /\ fnFile = ""
    /\ fnSection = ""
    /\ fnRet = Pending

(***************************************************************************)
(* Configuration.__init__, one step for each call that reaches the         *)
(* database or the file system.                                            *)
(***************************************************************************)
Fail(e) ==
    /\ pc' = "failed"
    /\ outcome' = e

\* lines 17-19 and the field validation of ConfigurationModel(...)
Configuration_init(appname, debugging, ini_file) ==
    /\ pc = "idle"
    /\ args' = [appname |-> appname, debugging |-> debugging, ini_file |-> ini_file]
    /\ self' = [a \in {InstanceAttributes[i] : i \in 1..3} |->
                  CASE a = "named_attributes" -> BoolV(FALSE)
                    [] a = "initialized" -> BoolV(TRUE)
                    [] a = "ini_file" -> [t |-> "text", v |-> ini_file]]
    /\ dbOps' = <<>>
    /\ pc' = AfterFields(appname)
    /\ outcome' = IF AfterFields(appname) = "failed"
                  THEN Raise("ValidationError", "invalid_app_name", {})
                  ELSE Pending
    /\ UNCHANGED <<envVars, fnVars, allowed, fetched, openConns,
                   tableAtValidate, tableAtLoad, lastRead>>

\* load_config(filename=ini_file), in get_unique_app_names and in get_config
Loaded(c, next) == IF c.ok THEN pc' = next /\ outcome' = outcome ELSE Fail(c)
LoadConfigStep(here, next) ==
    /\ pc = here
    /\ dbOps' = Append(dbOps, "load_config")
    /\ Loaded(load_config(files, args.ini_file, "postgresql"), next)

\* connect(config): the driver's error is raised unchanged
ConnectStep(here, next) ==
    /\ pc = here
    /\ dbOps' = Append(dbOps, "connect")
    /\ \E up \in BOOLEAN :
          IF up
          THEN /\ pc' = next
               /\ outcome' = outcome
               /\ openConns' = openConns + 1
          ELSE /\ Fail(Raise("DatabaseError", "connect_failed", {}))
               /\ UNCHANGED openConns
    /\ UNCHANGED <<envVars, fnVars, args, self, allowed, fetched,
                   tableAtValidate, tableAtLoad, lastRead>>

\* get_unique_app_names: config = load_config(filename=ini_file)
ValidatorLoadConfig ==
    /\ LoadConfigStep("v_load", "v_connect")
    /\ UNCHANGED <<envVars, fnVars, args, self, allowed, fetched, openConns,
                   tableAtValidate, tableAtLoad, lastRead>>

\* get_unique_app_names: connection = connect(config)
ValidatorConnect == ConnectStep("v_connect", "v_select")

\* the rest of get_unique_app_names, then the membership test of
\* app_name_must_be_known.  No statement closes the connection.
Known(known) == IF known.ok THEN pc' = "g_load" /\ outcome' = outcome ELSE Fail(known)
Named(names) ==
    IF ~names.ok
    THEN Fail(names) /\ UNCHANGED allowed
    ELSE /\ allowed' = names.cols
         /\ Known(app_name_must_be_known(args.appname, names.cols))
Selected(up, results) ==
    IF ~up
    THEN Fail(Raise("DatabaseError", "query_failed", {})) /\ UNCHANGED allowed
    ELSE Named(IdsOf(results.val))
ValidatorSelect ==
    /\ pc = "v_select"
    /\ dbOps' = Append(dbOps, "select")
    /\ tableAtValidate' = table
    /\ \E up \in BOOLEAN :
          Selected(up, select_with_conditions(table, columns, NoConditions))
    /\ UNCHANGED <<envVars, fnVars, args, self, fetched, openConns, tableAtLoad,
                   lastRead>>

\* self.validation_model is stored once ConfigurationModel(...) has returned;
\* get_config starts with load_config
GetConfigLoadConfig ==
    /\ LoadConfigStep("g_load", "g_connect")
    /\ self' = Put(self, "validation_model",
                   [t |-> "ConfigurationModel", appname |-> args.appname,
                    debugging |-> args.debugging])
    /\ UNCHANGED <<envVars, fnVars, args, allowed, fetched, openConns,
                   tableAtValidate, tableAtLoad, lastRead>>

\* get_config: connection = connect(config)
GetConfigConnect == ConnectStep("g_connect", "g_select")

\* the rest of get_config: the filtered query and the loop over its rows;
\* self.configs is stored when get_config has returned.  No statement closes
\* the connection.
Aggregated(constants) ==
    IF constants.ok
    THEN /\ pc' = "done"
         /\ outcome' = Return(NoneV)
         /\ self' = Put(self, "configs", constants.val)
    ELSE /\ Fail(constants)
         /\ UNCHANGED self
Fetched(up, rows) ==
    IF ~up
    THEN Fail(Raise("DatabaseError", "query_failed", {})) /\ UNCHANGED <<fetched, self>>
    ELSE IF ~rows.ok
    THEN Fail(rows) /\ UNCHANGED <<fetched, self>>
    ELSE /\ fetched' = rows.val
         /\ Aggregated(Aggregate(rows.val, <<>>))
GetConfigSelect ==
    /\ pc = "g_select"
    /\ dbOps' = Append(dbOps, "select")
    /\ tableAtLoad' = table
    /\ \E up \in BOOLEAN :
          Fetched(up, select_with_conditions(
                          table, columns, where_conditions(args.appname, args.debugging)))
    /\ UNCHANGED <<envVars, fnVars, args, allowed, openConns, tableAtValidate,
                   lastRead>>

\* config.<name> on the constructed object
GetAttr(name) ==
    /\ pc = "done"
    /\ lastRead' = [name |-> name, res |-> ReadAttribute(self, name)]
    /\ UNCHANGED <<envVars, fnVars, runVars, pc, openConns>>

\* get_initial_values(appname, debugging), called on its own
InitialValues(appname, c, up, results) ==
    IF Len(appname) = 0
    THEN outcome' = Return(NoneV) /\ dbOps' = <<>> /\ UNCHANGED <<fetched, openConns>>
    ELSE IF ~c.ok
    THEN outcome' = c /\ dbOps' = <<"load_config">> /\ UNCHANGED <<fetched, openConns>>
    ELSE IF ~up
    THEN /\ outcome' = Raise("DatabaseError", "connect_failed", {})
         /\ dbOps' = <<"load_config", "connect">>
         /\ UNCHANGED <<fetched, openConns>>
    ELSE /\ dbOps' = <<"load_config", "connect", "select">>
         /\ openConns' = openConns + 1
         /\ IF ~results.ok
            THEN outcome' = results /\ UNCHANGED fetched
            ELSE outcome' = Parameters(results.val, <<>>) /\ fetched' = results.val
get_initial_values(appname, debugging) ==
    /\ pc = "idle"
    /\ pc' = "returned"
    /\ args' = [appname |-> appname, debugging |-> debugging, ini_file |-> "database.ini"]
    /\ \E up \in BOOLEAN :
          InitialValues(appname, load_config(files, "database.ini", "postgresql"), up,
                        select_with_conditions(
                            table, columns, where_conditions(appname, debugging)))
    /\ UNCHANGED <<envVars, fnVars, self, allowed, tableAtValidate, tableAtLoad,
                   lastRead>>

\* the caller drops the object or the result, or the exception and its
\* traceback; the connections of the call are followed no further
Discard ==
    /\ pc \in {"done", "failed", "returned"}
    /\ pc' = "idle"
    /\ args' = NoArgs
    /\ self' = <<>>
    /\ allowed' = {}
    /\ fetched' = <<>>
    /\ outcome' = Pending
    /\ dbOps' = <<>>
    /\ tableAtValidate' = <<>>
    /\ tableAtLoad' = <<>>
    /\ lastRead' = NoRead
    /\ changes' = 0
    /\ openConns' = 0
    /\ UNCHANGED <<files, table, columns, fnVars>>

\* the connections a running call or the traceback of a raised exception
\* still references
Referenced ==
    IF pc \in {"v_select", "g_select"} THEN 1
    ELSE IF ~outcome.ok THEN openConns
    ELSE 0
\* the interpreter may finalize a connection that nothing references, which
\* ends it; the program itself closes none
Finalize ==
    /\ openConns > Referenced
    /\ openConns' = openConns - 1
    /\ UNCHANGED <<envVars, fnVars, runVars, pc, lastRead>>

(***************************************************************************)
(* Other clients of the database.  The program reads the table at its two  *)
(* queries only: a change before the first is another initial table, and   *)
(* a change after the second has no reader.  So the changes are those      *)
(* between the validator's query and get_config's.                         *)
(***************************************************************************)
BetweenQueries == pc = "g_load"
RemoveAt(s, i) == SubSeq(s, 1, i - 1) \o SubSeq(s, i + 1, Len(s))
InsertRow(r) ==
    /\ BetweenQueries
    /\ changes < MaxChanges
    /\ Len(table) < MaxRows
    /\ table' = Append(table, r)
    /\ changes' = changes + 1
    /\ UNCHANGED <<files, columns, fnVars, runVars, pc, openConns, lastRead>>
DeleteRow(i) ==
    /\ BetweenQueries
    /\ changes < MaxChanges
    /\ i \in DOMAIN table
    /\ table' = RemoveAt(table, i)
    /\ changes' = changes + 1
    /\ UNCHANGED <<files, columns, fnVars, runVars, pc, openConns, lastRead>>

Next ==
    \/ \E a \in AppNames, d \in BOOLEAN, f \in IniFiles : Configuration_init(a, d, f)
    \/ ValidatorLoadConfig
    \/ ValidatorConnect
    \/ ValidatorSelect
    \/ GetConfigLoadConfig
    \/ GetConfigConnect
    \/ GetConfigSelect
    \/ \E n \in AttrNames : GetAttr(n)
    \/ \E a \in AppNames, d \in BOOLEAN : get_initial_values(a, d)
    \/ Discard
    \/ Finalize
    \/ \E r \in StoreRows : InsertRow(r)
    \/ \E i \in 1..MaxRows : DeleteRow(i)

Spec == Init /\ [][Next]_vars

(***************************************************************************)
(* The functions called on their own: a row or a file is drawn, and one    *)
(* function is applied to it.                                              *)
(***************************************************************************)
FnTypeIds ==
    {IntId(n) : n \in 0..9} \cup {IntId(99), StrId(2), NoneId}
FnValues == {<<>>, V_42, V_x, V_Yes, V_no, V_list, V_float, V_date, V_stamp}
FnFullRows ==
    { StoredRow("temp", "name1", tid, v, TRUE) : tid \in FnTypeIds, v \in FnValues }
Restrict(r, cols) == [c \in cols |-> r[c]]
\* a row with some of its columns, and a row that is carried under the key
\* "row" of a mapping
FnRows ==
    { Restrict(r, cols) : r \in FnFullRows, cols \in SUBSET EXPECTED_COLUMNS }
    \cup { [row |-> r] : r \in FnFullRows }
    \cup { [row |-> Restrict(r, EXPECTED_COLUMNS \ {"debugmode"})] : r \in FnFullRows }

UpperOptions == (<<"H", "o", "s", "t">> :> "db1")
FnSections == {"postgresql", "mysql"}
FnContents ==
    UNION { [secs -> {PostgresOptions, UpperOptions, <<>>}] : secs \in SUBSET FnSections }
\* no file, or database.ini with some sections
FnFileSystems == {<<>>} \cup { [f \in {"database.ini"} |-> c] : c \in FnContents }

InitFn ==
    /\ table = <<>>
    /\ columns = EXPECTED_COLUMNS
    /\ changes = 0
    /\ Quiet
    /\ fnCall = "none"
    /\ fnRet = Pending
    /\ \/ /\ fnRow \in FnRows
          /\ files = InstalledFiles
          /\ fnFile = "database.ini"
          /\ fnSection = "postgresql"
       \/ /\ fnRow = <<>>
          /\ files \in FnFileSystems
          /\ fnFile \in IniFiles
          /\ fnSection \in FnSections

facadeVars ==
    <<files, table, columns, changes, pc, args, self, allowed, fetched, outcome,
      dbOps, openConns, tableAtValidate, tableAtLoad, lastRead>>

Call_get_parameter ==
    /\ fnCall = "none"
    /\ fnCall' = "get_parameter"
    /\ fnRet' = get_parameter(fnRow)
    /\ UNCHANGED <<facadeVars, fnRow, fnFile, fnSection>>

Call_get_parameter_value ==
    /\ fnCall = "none"
    /\ fnCall' = "get_parameter_value"
    /\ fnRet' = get_parameter_value(fnRow)
    /\ UNCHANGED <<facadeVars, fnRow, fnFile, fnSection>>

Call_load_config ==
    /\ fnCall = "none"
    /\ fnCall' = "load_config"
    /\ fnRet' = load_config(files, fnFile, fnSection)
    /\ UNCHANGED <<facadeVars, fnRow, fnFile, fnSection>>

NextFn ==
    \/ Call_get_parameter
    \/ Call_get_parameter_value
    \/ Call_load_config

SpecFn == InitFn /\ [][NextFn]_vars

(***************************************************************************)
(* The claims on the three functions, under SpecFn.                        *)
(***************************************************************************)
MissingColumns(row) == EXPECTED_COLUMNS \ DOMAIN row
Coercible(row) ==
    /\ MissingColumns(row) = {}
    /\ row["type_id"].tag = "int"
    /\ row["type_id"].n \in 1..8

\* C4: a row that lacks some of id, name, description, type_id, value and
\* debugmode makes get_parameter and get_parameter_value fail with the
\* missing-column error, which names exactly the columns that are missing.
C4_MissingColumnReported ==
    (fnCall \in {"get_parameter", "get_parameter_value"} /\ MissingColumns(fnRow) # {})
        => /\ ~fnRet.ok
           /\ fnRet.what = "missing_column"
           /\ fnRet.cols = MissingColumns(fnRow)

\* C6: get_parameter of a row that has the six columns, a type_id from 1 to 8
\* and a value its mapper accepts returns Parameter(name of the row, coerced
\* value); get_parameter of an empty row raises the empty-input error.
C6_ParameterExtracted ==
    fnCall = "get_parameter" =>
        /\ DOMAIN fnRow = {} =>
              ~fnRet.ok /\ fnRet.exc = "RuntimeError" /\ fnRet.what = "no_row_supplied"
        /\ (Coercible(fnRow) /\ ApplyMapper(fnRow["type_id"].n, fnRow["value"]).ok) =>
              fnRet = Return(Parameter(fnRow["name"],
                          ApplyMapper(fnRow["type_id"].n, fnRow["value"]).val))

\* C9: load_config raises FileNotFoundError when the file does not exist,
\* raises the configuration-not-found error when the file exists without the
\* section, and otherwise returns the pairs of the section as they are written.
C9_LoadConfigOutcomes ==
    fnCall = "load_config" =>
        IF fnFile \notin DOMAIN files
        THEN ~fnRet.ok /\ fnRet.exc = "FileNotFoundError"
        ELSE IF fnSection \notin DOMAIN files[fnFile]
        THEN ~fnRet.ok /\ fnRet.exc = "RuntimeError" /\ fnRet.what = "section_not_found"
        ELSE fnRet = Return(files[fnFile][fnSection])

(***************************************************************************)
(* The claims on Configuration, under Spec.                                *)
(***************************************************************************)
\* a construction is under way or has ended
Constructing == pc \notin {"idle", "returned"}
StoredIds(t) == {t[i].id : i \in DOMAIN t}
\* the validator's query of all rows was sent and the server answered it
ValidatorAnswered ==
    /\ Constructing
    /\ Len(dbOps) >= 3
    /\ "id" \in columns
    /\ ~(pc = "failed" /\ Len(dbOps) = 3 /\ outcome.exc = "DatabaseError")

\* C1: a construction with a name shorter than 5 characters fails with the
\* invalid-application-name error, and at no point of it is load_config,
\* connect or a select performed.
C1_ShortNameNoDatabase ==
    (Constructing /\ Len(args.appname) < 5)
        => /\ pc = "failed"
           /\ outcome.exc = "ValidationError"
           /\ outcome.what = "invalid_app_name"
           /\ dbOps = <<>>

C1_Witness ==
    /\ pc = "failed"
    /\ args.appname = "kort"
    /\ outcome.what = "invalid_app_name"
    /\ Len(table) > 0

\* C2: when the name is no id of a stored row and the validator's query is
\* answered, the construction fails with the unknown-application error, the
\* error lists the distinct ids of all stored rows whatever their debug flag,
\* and nothing follows the validator's select: get_config's fetch is not run.
C2_UnknownNameRejected ==
    (ValidatorAnswered /\ args.appname \notin StoredIds(tableAtValidate))
        => /\ pc = "failed"
           /\ outcome.exc = "ValidationError"
           /\ outcome.what = "unknown_application"
           /\ outcome.cols = StoredIds(tableAtValidate)
           /\ dbOps = <<"load_config", "connect", "select">>
           /\ fetched = <<>>

C2_Witness ==
    /\ pc = "failed"
    /\ outcome.what = "unknown_application"
    /\ args.appname = "app-zz"
    /\ outcome.cols = {"app-a", "app-b"}
    /\ \E i \in DOMAIN tableAtValidate :
          tableAtValidate[i].id = "app-a" /\ tableAtValidate[i].debugmode
    /\ \A i \in DOMAIN tableAtValidate :
          tableAtValidate[i].id = "app-a" => tableAtValidate[i].debugmode

\* C3: when get_unique_app_names, get_config or get_initial_values has
\* returned or raised, the connections it opened are closed: none is open
\* after the validator, after a construction or after get_initial_values.
C3_ConnectionsClosed ==
    pc \in {"g_load", "done", "failed", "returned"} => openConns = 0

\* the rows get_config fetched and was asked to aggregate
Aggregating == pc \in {"done", "failed"} /\ Len(dbOps) = 6 /\ outcome.exc # "DatabaseError"
HasMapper(row) == row["type_id"].tag = "int" /\ row["type_id"].n \in 1..8
Unmapped(rows) ==
    {i \in DOMAIN rows : MissingColumns(rows[i]) = {} /\ ~HasMapper(rows[i])}

\* C5: a fetched row with the six columns whose type_id is no integer from 1
\* to 8 (99, or the string '2') fails coercion with the incompatible-type
\* error and gives no value; a construction that fetched such a row fails
\* and stores no mapping, and a construction that succeeded fetched none.
C5_UnknownTypeRejected ==
    /\ \A i \in Unmapped(fetched) :
          /\ ~Row_value(fetched[i]).ok
          /\ Row_value(fetched[i]).exc = "ValueError"
          /\ Row_value(fetched[i]).what = "incompatible_type"
          /\ Row_value(fetched[i]).val = NoneV
    /\ (Aggregating /\ Unmapped(fetched) # {}) =>
          /\ pc = "failed"
          /\ "configs" \notin DOMAIN self
    /\ (Aggregating /\ fetched # <<>> /\ 1 \in Unmapped(fetched)) =>
          /\ outcome.exc = "RuntimeError"
          /\ outcome.what = "incompatible_type"

C5_Witness ==
    /\ pc = "failed"
    /\ Len(fetched) = 2
    /\ Unmapped(fetched) = {2}
    /\ fetched[2]["type_id"] = StrId(2)
    /\ outcome.what = "incompatible_type"

\* the index of the last fetched row of a name
LastOf(rows, n) ==
    CHOOSE i \in DOMAIN rows :
        rows[i]["name"] = n /\ \A j \in DOMAIN rows : rows[j]["name"] = n => j <= i
FetchedNames == {fetched[i]["name"] : i \in DOMAIN fetched}

\* C8: when every fetched row coerces, get_config returns a mapping whose
\* keys are the distinct names of the fetched rows, as many keys as distinct
\* names, and each name maps to the coerced value of the last fetched row
\* with that name.
C8_LastWriteWins ==
    (Aggregating /\ \A i \in DOMAIN fetched : get_parameter_value(fetched[i]).ok)
        => /\ pc = "done"
           /\ DOMAIN self["configs"].v = FetchedNames
           /\ Cardinality(DOMAIN self["configs"].v) = Cardinality(FetchedNames)
           /\ \A n \in FetchedNames :
                 self["configs"].v[n] =
                     get_parameter_value(fetched[LastOf(fetched, n)]).val

C8_Witness ==
    /\ pc = "done"
    /\ Len(fetched) = 2
    /\ fetched[1]["name"] = fetched[2]["name"]
    /\ get_parameter_value(fetched[1]).val = IntV(42)
    /\ self["configs"].v = ("n1" :> StrV(V_x))

\* the names Python finds on the object or its class before __getattr__
Intrinsic == Range(InstanceAttributes) \cup ClassAttributes
WasRead == pc = "done" /\ lastRead.name # ""

\* C7: on a constructed Configuration, reading n returns the typed value
\* stored under n for every key n of the mapping, the facade's own attribute
\* names (configs, ini_file, ...) included; a name that is neither a key nor
\* an intrinsic attribute raises attribute-not-found.
C7_EveryKeyReadable ==
    WasRead =>
        IF lastRead.name \in DOMAIN self["configs"].v
        THEN lastRead.res = Return(self["configs"].v[lastRead.name])
        ELSE lastRead.name \notin Intrinsic =>
                ~lastRead.res.ok /\ lastRead.res.exc = "AttributeError"

\* the names of the rows of t stored for the application under the flag
NamesFor(t, appname, debugging) ==
    {t[i].name : i \in {j \in DOMAIN t : t[j].id = appname /\ t[j].debugmode = debugging}}
\* the rows of t stored for the application under the flag, as fetched
RowsFor(t, appname, debugging) ==
    {Restrict(t[i], columns) :
        i \in {j \in DOMAIN t : t[j].id = appname /\ t[j].debugmode = debugging}}
\* the construction ended, for a reason other than the file or the database
Ended ==
    /\ pc \in {"done", "failed"}
    /\ outcome.what \notin {"section_not_found", "connect_failed", "query_failed"}
    /\ "debugmode" \in columns

\* C10 as stated: a construction with a name that is the id of a stored row,
\* under either flag, succeeds, and the keys of its mapping are the names of
\* the rows with that id and the given flag at the time of the second query.
C10_KnownNameSucceeds ==
    (Ended /\ ValidatorAnswered /\ args.appname \in StoredIds(tableAtValidate))
        => /\ pc = "done"
           /\ DOMAIN self["configs"].v =
                 NamesFor(tableAtLoad, args.appname, args.debugging)

\* C10 amended: such a construction succeeds exactly when every row with that
\* id and the given flag at the time of the second query has the six columns
\* and coerces; the keys of its mapping are then the names of those rows, and
\* the mapping is empty when there is none; otherwise it fails with the
\* "Value conversion failed" error.
C10_KnownNameLoadsFlagRows ==
    (Ended /\ ValidatorAnswered /\ args.appname \in StoredIds(tableAtValidate))
        => /\ pc = "done" <=>
                 \A r \in RowsFor(tableAtLoad, args.appname, args.debugging) :
                     get_parameter_value(r).ok
           /\ pc = "done" =>
                 DOMAIN self["configs"].v =
                     NamesFor(tableAtLoad, args.appname, args.debugging)
           /\ pc = "failed" =>
                 /\ outcome.exc = "RuntimeError"
                 /\ outcome.prefix = "Value conversion failed"

C10_Witness ==
    /\ pc = "done"
    /\ self["configs"].v = <<>>
    /\ NamesFor(tableAtValidate, args.appname, args.debugging) # {}
    /\ NamesFor(tableAtLoad, args.appname, args.debugging) = {}
    /\ changes > 0

=============================================================================
